---- MODULE Spec2Model ----
(***************************************************************************)
(* A model of rust-htslib's SAM writer (src/src/sam/mod.rs) and of the     *)
(* BAM header text codec (src/src/bam/header.rs).                          *)
(*                                                                         *)
(* Bytes are one-character strings; a byte string (Vec<u8>, &[u8], &str)   *)
(* is a sequence of them.  The alphabet of the model is ASCII, on which    *)
(* String::from_utf8 is the identity; "\\xFF" stands for the byte 0xFF,    *)
(* which no UTF-8 text contains, and "\\x60" for the grave accent, which   *)
(* a TLA+ string cannot hold.                                              *)
(***************************************************************************)
EXTENDS Integers, Sequences, FiniteSets, TLC

VARIABLES
  writers,      \* the Writer values constructed so far: [f, header, live]
  log,          \* per stream handle, the htslib calls issued on it, in order
  hdr_ok,       \* per stream handle, whether sam_hdr_write succeeded on it
  last,         \* the most recent Writer call: operation, htslib returns, result
  header_made,  \* how the Header was constructed: "none", "new" or "template"
  records,      \* Header.records
  record_made,  \* whether a HeaderRecord has been constructed
  rec_type,     \* HeaderRecord.rec_type
  tags,         \* HeaderRecord.tags
  ret           \* what the most recent Header call returned (to_hashmap's value)

wvars == <<writers, log, hdr_ok, last>>
hvars == <<header_made, records>>
rvars == <<record_made, rec_type, tags>>
vars == <<writers, log, hdr_ok, last, header_made, records, record_made, rec_type, tags, ret>>

(***************************************************************************)
(* Bounds of the model.                                                    *)
(***************************************************************************)
MaxWriters == 2   \* Writer constructions that open a stream
MaxWrites == 2    \* write(record) calls per Writer
MaxLines == 2     \* entries of Header.records
MaxTags == 2      \* push_tag calls per HeaderRecord

(***************************************************************************)
(* Character classes of the two regular expressions.                       *)
(***************************************************************************)
TAB == "\t"
NL == "\n"
Upper == {"A", "B", "C", "D", "E", "F", "G", "H", "I", "J", "K", "L", "M",
          "N", "O", "P", "Q", "R", "S", "T", "U", "V", "W", "X", "Y", "Z"}
Lower == {"a", "b", "c", "d", "e", "f", "g", "h", "i", "j", "k", "l", "m",
          "n", "o", "p", "q", "r", "s", "t", "u", "v", "w", "x", "y", "z"}
Digit == {"0", "1", "2", "3", "4", "5", "6", "7", "8", "9"}
Alpha == Upper \cup Lower
Alnum == Alpha \cup Digit
\* [ -~]: the bytes 0x20 to 0x7E
Printable == Alnum \cup {" ", "!", "\"", "#", "$", "%", "&", "'", "(", ")", "*",
                         "+", ",", "-", ".", "/", ":", ";", "<", "=", ">", "?",
                         "@", "[", "\\", "]", "^", "_", "\\x60", "{", "|", "}", "~"}
Ascii == Printable \cup {TAB, NL, "\r"}

(***************************************************************************)
(* Helpers on byte strings.                                                *)
(***************************************************************************)
SetMin(S) == CHOOSE i \in S : \A j \in S : i <= j

\* [T]::join(&sep): the pieces with sep between neighbours
RECURSIVE join(_, _)
join(pieces, sep) ==
  IF pieces = <<>> THEN <<>>
  ELSE IF Len(pieces) = 1 THEN pieces[1]
  ELSE pieces[1] \o <<sep>> \o join(Tail(pieces), sep)

\* str::split(c): the pieces between occurrences of c, empty ones included
RECURSIVE split(_, _)
split(s, c) ==
  LET at == {i \in 1..Len(s) : s[i] = c}
  IN IF at = {} THEN <<s>>
     ELSE <<SubSeq(s, 1, SetMin(at) - 1)>> \o split(SubSeq(s, SetMin(at) + 1, Len(s)), c)

\* .filter(|x| !x.is_empty())
non_empty(pieces) == SelectSeq(pieces, LAMBDA x : x # <<>>)

None == [some |-> FALSE]
Some(v) == [some |-> TRUE, val |-> v]

(***************************************************************************)
(* HeaderRecord                                                            *)
(***************************************************************************)
HeaderRecord_new(rt) == [rec_type |-> <<"@">> \o rt, tags |-> <<>>]

push_tag(rec, tag, value) == [rec EXCEPT !.tags = Append(rec.tags, <<tag, value>>)]

RECURSIVE tags_to_bytes(_)
tags_to_bytes(ts) ==
  IF ts = <<>> THEN <<>>
  ELSE <<TAB>> \o ts[1][1] \o <<":">> \o ts[1][2] \o tags_to_bytes(Tail(ts))

HeaderRecord_to_bytes(rec) == rec.rec_type \o tags_to_bytes(rec.tags)

(***************************************************************************)
(* Header                                                                  *)
(***************************************************************************)
Header_new == <<>>

\* the while-let loop that pops trailing newline bytes
RECURSIVE strip_trailing_newlines(_)
strip_trailing_newlines(record) ==
  IF record # <<>> /\ record[Len(record)] = NL
  THEN strip_trailing_newlines(SubSeq(record, 1, Len(record) - 1))
  ELSE record

from_template(source) == <<strip_trailing_newlines(source)>>

push_record(recs, rec) == Append(recs, HeaderRecord_to_bytes(rec))

push_comment(recs, comment) == Append(recs, join(<<<<"@", "C", "O">>, comment>>, TAB))

Header_to_bytes(recs) == join(recs, NL)

(***************************************************************************)
(* Header::to_hashmap                                                      *)
(***************************************************************************)
\* Regex::captures is a leftmost search: the patterns carry no ^ or $ anchor.
rec_type_re(s) ==
  LET at == {i \in 1..(Len(s) - 2) : s[i] = "@" /\ s[i + 1] \in Upper /\ s[i + 2] \in Upper}
  IN IF at = {} THEN None
     ELSE Some([start |-> SetMin(at), g1 |-> SubSeq(s, SetMin(at) + 1, SetMin(at) + 2)])

tag_re(s) ==
  LET at == {i \in 1..(Len(s) - 3) : /\ s[i] \in Alpha
                                     /\ s[i + 1] \in Alnum
                                     /\ s[i + 2] = ":"
                                     /\ s[i + 3] \in Printable}
      i0 == SetMin(at)
      \* [ -~]+ is greedy: it runs to the first byte outside the class
      stop == SetMin({j \in (i0 + 3)..(Len(s) + 1) : j = Len(s) + 1 \/ s[j] \notin Printable})
  IN IF at = {} THEN None
     ELSE Some([start |-> i0, end |-> stop - 1,
                g1 |-> SubSeq(s, i0, i0 + 1), g2 |-> SubSeq(s, i0 + 3, stop - 1)])

\* an insert that keeps the value already stored for the key
LinearMap_insert_keep_first(field, tag, value) ==
  IF \E j \in 1..Len(field) : field[j][1] = tag
  THEN field
  ELSE Append(field, <<tag, value>>)

\* LinearMap::insert: an existing key keeps its place and takes the new value
LinearMap_insert(field, tag, value) ==
  IF \E j \in 1..Len(field) : field[j][1] = tag
  THEN [j \in 1..Len(field) |-> IF field[j][1] = tag THEN <<tag, value>> ELSE field[j]]
  ELSE Append(field, <<tag, value>>)

Panic(why) == [ok |-> FALSE, err |-> why]
Ok(v) == [ok |-> TRUE, val |-> v]

\* for part in parts.iter().skip(1): a segment that does not match panics
RECURSIVE parse_tags(_, _)
parse_tags(parts, field) ==
  IF parts = <<>> THEN Ok(field)
  ELSE LET cap == tag_re(parts[1])
       IN IF ~cap.some THEN Panic("tag")
          ELSE parse_tags(Tail(parts), LinearMap_insert(field, cap.val.g1, cap.val.g2))

\* header_map.entry(record_type).or_insert_with(Vec::new).push(field)
HashMap_push(header_map, key, field) ==
  [k \in (DOMAIN header_map) \cup {key} |->
     IF k = key
     THEN (IF key \in DOMAIN header_map THEN Append(header_map[key], field) ELSE <<field>>)
     ELSE header_map[k]]

\* the body of the loop over the non-empty lines
RECURSIVE parse_lines(_, _)
parse_lines(lines, header_map) ==
  IF lines = <<>> THEN Ok(header_map)
  ELSE LET parts == non_empty(split(lines[1], TAB))
       IN IF parts = <<>> THEN Panic("index")
          ELSE LET cap == rec_type_re(parts[1])
               IN IF ~cap.some THEN Panic("rec_type")
                  ELSE LET field == parse_tags(Tail(parts), <<>>)
                       IN IF ~field.ok THEN field
                          ELSE parse_lines(Tail(lines),
                                           HashMap_push(header_map, cap.val.g1, field.val))

to_hashmap(recs) ==
  LET bytes == Header_to_bytes(recs)
  IN IF \E i \in 1..Len(bytes) : bytes[i] \notin Ascii THEN Panic("utf8")
     ELSE parse_lines(non_empty(split(bytes, NL)), <<>>)

(***************************************************************************)
(* sam::Writer.  A stream handle is 0 (the null pointer) or the number of  *)
(* the stream hts_open created; log and hdr_ok are the streams as htslib   *)
(* sees them.                                                              *)
(***************************************************************************)
NULL == 0
Handles == NULL..MaxWriters
Constructors == {"from_path", "from_stdout"}
\* sam_hdr_write returns 0, or -1 on failure
SamHdrWriteReturns == {-1, 0}
\* sam_write1 returns the number of bytes written, or -1 on failure
SamWrite1Returns == {-1, 0, 1}

SQ == <<"S", "Q">>
HD == <<"H", "D">>
SN == <<"S", "N">>
LN == <<"L", "N">>
VN == <<"V", "N">>

\* the headers handed to the constructors
WriterHeaders ==
  {Header_new,
   push_record(Header_new, push_tag(HeaderRecord_new(SQ), SN, <<"A">>))}

\* HeaderView::from_header (bam/mod.rs): the view is a snapshot of the header text
HeaderView_from_header(header) == Header_to_bytes(header)

Err(e) == [ok |-> FALSE, err |-> e]

hts_open_unchecked(opened) == Ok(opened)

\* fn hts_open: a null return is Err(WriterError::IOError)
hts_open(opened) == IF opened = NULL THEN Err("IOError") ELSE Ok(opened)

Opened(opened) == IF opened = NULL THEN "null" ELSE "handle"

Call(op, opened, f, code, result) ==
  [op |-> op, opened |-> opened, f |-> f, code |-> code, result |-> result]

\* the paths handed to from_path; from_stdout passes "-"
Paths == {"out.sam", "not Unicode", "with NUL"}

\* ffi::CString::new(path).unwrap() panics on a path with a NUL byte inside
CString_new(path) == IF path = "with NUL" THEN Panic("NulError") ELSE Ok(path)

NewWriter(f, header) ==
  [f |-> f, header |-> HeaderView_from_header(header), live |-> TRUE]

\* a Writer::new that skips sam_hdr_write
Writer_new_no_header(op, path, opened, code, header) ==
  IF ~CString_new(path).ok
  THEN /\ last' = Call(op, "not called", NULL, 0, "panic")
       /\ UNCHANGED <<writers, log, hdr_ok>>
  ELSE LET f == hts_open(opened)
       IN IF ~f.ok
          THEN /\ last' = Call(op, Opened(opened), NULL, 0, f.err)
               /\ UNCHANGED <<writers, log, hdr_ok>>
          ELSE /\ writers' = Append(writers, NewWriter(f.val, header))
               /\ last' = Call(op, Opened(opened), f.val, code, "Ok")
               /\ UNCHANGED <<log, hdr_ok>>

\* a Writer::new that returns an error when sam_hdr_write fails
Writer_new_checked(op, path, opened, code, header) ==
  IF ~CString_new(path).ok
  THEN /\ last' = Call(op, "not called", NULL, 0, "panic")
       /\ UNCHANGED <<writers, log, hdr_ok>>
  ELSE LET f == hts_open(opened)
       IN IF ~f.ok
          THEN /\ last' = Call(op, Opened(opened), NULL, 0, f.err)
               /\ UNCHANGED <<writers, log, hdr_ok>>
          ELSE /\ log' = [log EXCEPT ![f.val] = Append(@, "sam_hdr_write")]
               /\ hdr_ok' = [hdr_ok EXCEPT ![f.val] = (code = 0)]
               /\ IF code = 0
                  THEN /\ writers' = Append(writers, NewWriter(f.val, header))
                       /\ last' = Call(op, Opened(opened), f.val, code, "Ok")
                  ELSE /\ writers' = writers
                       /\ last' = Call(op, Opened(opened), NULL, code, "IOError")

\* fn new: CString::new(path).unwrap(), try!(hts_open), HeaderView::from_header,
\* sam_hdr_write (its return value is dropped), Ok(Writer { f, header })
Writer_new(op, path, opened, code, header) ==
  IF ~CString_new(path).ok
  THEN /\ last' = Call(op, "not called", NULL, 0, "panic")
       /\ UNCHANGED <<writers, log, hdr_ok>>
  ELSE LET f == hts_open(opened)
       IN IF ~f.ok
          THEN /\ last' = Call(op, Opened(opened), NULL, 0, f.err)
               /\ UNCHANGED <<writers, log, hdr_ok>>
          ELSE /\ log' = [log EXCEPT ![f.val] = Append(@, "sam_hdr_write")]
               /\ hdr_ok' = [hdr_ok EXCEPT ![f.val] = (code = 0)]
               /\ writers' = Append(writers, NewWriter(f.val, header))
               /\ last' = Call(op, Opened(opened), f.val, code, "Ok")

\* what hts_open may return: null, or the next stream
OpenReturns == {NULL} \cup {h \in {Len(writers) + 1} : h <= MaxWriters}

\* pub fn from_path: a path that is not Unicode is an IOError before any open
from_path(path, opened, code, header) ==
  IF path # "not Unicode"
  THEN Writer_new("from_path", path, opened, code, header)
  ELSE /\ last' = Call("from_path", "not called", NULL, 0, "IOError")
       /\ UNCHANGED <<writers, log, hdr_ok>>

FromPath ==
  /\ \E path \in Paths, opened \in OpenReturns, code \in SamHdrWriteReturns,
        header \in WriterHeaders :
       from_path(path, opened, code, header)
  /\ UNCHANGED <<hvars, rvars, ret>>

\* pub fn from_stdout
FromStdout ==
  /\ \E opened \in OpenReturns, code \in SamHdrWriteReturns, header \in WriterHeaders :
       Writer_new("from_stdout", "-", opened, code, header)
  /\ UNCHANGED <<hvars, rvars, ret>>

Writes(l) == Len(SelectSeq(l, LAMBDA c : c = "sam_write1"))
Closes(l) == Len(SelectSeq(l, LAMBDA c : c = "hts_close"))
HdrWrites(l) == Len(SelectSeq(l, LAMBDA c : c = "sam_hdr_write"))

\* a write that takes every non-zero return for a failure
write_nonzero_fails(w, code) ==
  /\ log' = [log EXCEPT ![writers[w].f] = Append(@, "sam_write1")]
  /\ last' = Call("write", "handle", writers[w].f, code,
                  IF code # 0 THEN "WriteError" ELSE "Ok")
  /\ UNCHANGED <<writers, hdr_ok>>

\* pub fn write: sam_write1(self.f, header, record) == -1 is Err(WriteError::Some)
write(w, code) ==
  /\ log' = [log EXCEPT ![writers[w].f] = Append(@, "sam_write1")]
  /\ last' = Call("write", "handle", writers[w].f, code,
                  IF code = -1 THEN "WriteError" ELSE "Ok")
  /\ UNCHANGED <<writers, hdr_ok>>

Write ==
  /\ \E w \in 1..Len(writers), code \in SamWrite1Returns :
       /\ writers[w].live
       /\ Writes(log[writers[w].f]) < MaxWrites
       /\ write(w, code)
  /\ UNCHANGED <<hvars, rvars, ret>>

\* a drop that forgets hts_close
drop_leaks(w) ==
  /\ writers' = [writers EXCEPT ![w].live = FALSE]
  /\ last' = Call("drop", "handle", writers[w].f, 0, "Ok")
  /\ UNCHANGED <<log, hdr_ok>>

\* impl Drop for Writer: hts_close(self.f), once, when the value goes away
drop(w) ==
  /\ log' = [log EXCEPT ![writers[w].f] = Append(@, "hts_close")]
  /\ writers' = [writers EXCEPT ![w].live = FALSE]
  /\ last' = Call("drop", "handle", writers[w].f, 0, "Ok")
  /\ UNCHANGED hdr_ok

Drop ==
  /\ \E w \in 1..Len(writers) : writers[w].live /\ drop(w)
  /\ UNCHANGED <<hvars, rvars, ret>>

NoCall == Call("none", "not called", NULL, 0, "Ok")
NoRet == [call |-> "none"]

HeaderIdle ==
  /\ header_made = "none"
  /\ records = <<>>
  /\ record_made = FALSE
  /\ rec_type = <<>>
  /\ tags = <<>>
  /\ ret = NoRet

WriterIdle ==
  /\ writers = <<>>
  /\ log = [h \in Handles |-> <<>>]
  /\ hdr_ok = [h \in Handles |-> FALSE]
  /\ last = NoCall

Init == WriterIdle /\ HeaderIdle

Next == FromPath \/ FromStdout \/ Write \/ Drop

Spec == Init /\ [][Next]_vars

(***************************************************************************)
(* Claims about the Writer, checked under Spec.                            *)
(***************************************************************************)
Owned(h) == \E w \in 1..Len(writers) : writers[w].f = h

\* C1: on every stream a constructor opened, the header write happens exactly
\* once and before every record write: each Writer's stream starts with the
\* header write, no stream carries a second one, and nothing is written to a
\* stream before its header.
C1_HeaderOnceBeforeRecords ==
  /\ \A w \in 1..Len(writers) :
       LET l == log[writers[w].f]
       IN l # <<>> /\ l[1] = "sam_hdr_write" /\ HdrWrites(l) = 1
  /\ \A h \in Handles : log[h] # <<>> => log[h][1] = "sam_hdr_write" /\ HdrWrites(log[h]) = 1

C1_Witness ==
  \E w \in 1..Len(writers) :
    log[writers[w].f] = <<"sam_hdr_write", "sam_write1", "sam_write1">>

\* C2: a stream handle a constructor opened is closed exactly once, when its
\* Writer is dropped: not while the Writer is live, never twice, never left
\* open after the drop, nothing is issued after the close, and no call at all
\* reaches a handle that no Writer owns (the null handle included).
C2_ClosedExactlyOnceOnDrop ==
  /\ \A w \in 1..Len(writers) :
       LET l == log[writers[w].f]
       IN /\ writers[w].f # NULL
          /\ writers[w].live => Closes(l) = 0
          /\ ~writers[w].live => Closes(l) = 1 /\ l[Len(l)] = "hts_close"
  /\ \A v, w \in 1..Len(writers) : v # w => writers[v].f # writers[w].f
  /\ \A h \in Handles : ~Owned(h) => log[h] = <<>>

C2_Witness ==
  /\ last.op = "drop"
  /\ \E w \in 1..Len(writers) :
       /\ ~writers[w].live
       /\ writers[w].f = last.f
       /\ Writes(log[writers[w].f]) = MaxWrites
  /\ \E w \in 1..Len(writers) : writers[w].live

\* C3 as stated: a Writer exists only if its header was written successfully,
\* and a header write that reports failure makes construction fail.
C3_HeaderFailureFailsConstruction ==
  /\ \A w \in 1..Len(writers) : hdr_ok[writers[w].f]
  /\ (last.op \in Constructors /\ last.opened = "handle" /\ last.code = -1)
       => last.result # "Ok"

\* C3 as amended: construction returns a Writer exactly when hts_open was
\* reached and returned a handle; the Writer is then live on that handle and
\* sam_hdr_write has been issued on it exactly once, first, whatever it
\* returned; a construction that fails (IOError, or the panic on a path with
\* a NUL byte) leaves no Writer behind.
C3_ConstructionAtomicState ==
  /\ \A w \in 1..Len(writers) :
       LET l == log[writers[w].f]
       IN writers[w].f # NULL /\ l # <<>> /\ l[1] = "sam_hdr_write" /\ HdrWrites(l) = 1
  /\ last.op \in Constructors =>
       /\ last.result = "Ok" <=> last.opened = "handle"
       /\ last.result = "Ok" =>
            /\ writers # <<>>
            /\ writers[Len(writers)] = [f |-> last.f, header |-> writers[Len(writers)].header,
                                        live |-> TRUE]
            /\ log[last.f] = <<"sam_hdr_write">>
            /\ hdr_ok[last.f] <=> last.code = 0

C3_ConstructionAtomic ==
  /\ []C3_ConstructionAtomicState
  /\ [][(last'.op \in Constructors /\ last'.result # "Ok") => writers' = writers]_vars

C3_Witness ==
  /\ last.op \in Constructors
  /\ last.code = -1
  /\ last.result = "Ok"
  /\ \E w \in 1..Len(writers) : writers[w].f = last.f /\ writers[w].live /\ ~hdr_ok[last.f]

\* C4: when hts_open returns null the constructors return IOError, create no
\* Writer and issue no header write, record write or close on any handle;
\* IOError is the only error construction returns (a panic returns nothing)
\* and it is returned only when no stream handle was opened.
C4_OpenFailureState ==
  last.op \in Constructors =>
    /\ last.opened = "null" => last.result = "IOError"
    /\ last.result \notin {"Ok", "panic"} => last.result = "IOError"
    /\ last.result = "IOError" => last.opened # "handle" /\ last.f = NULL

C4_OpenFailure ==
  /\ []C4_OpenFailureState
  /\ [][(last'.op \in Constructors /\ last'.opened = "null")
          => UNCHANGED <<writers, log, hdr_ok>>]_vars

C4_Witness ==
  /\ last.op = "from_stdout"
  /\ last.opened = "null"
  /\ last.result = "IOError"
  /\ \E w \in 1..Len(writers) : writers[w].live

\* C5: write returns the write error exactly when sam_write1 returns -1 and
\* success otherwise; the call is issued once (no retry, no rollback) and the
\* Writer keeps its state, its handle and its header view, so that later
\* writes reach the same stream and the handle is still closed on drop.
WriteStep == last'.op = "write" /\ (last' # last \/ log' # log)

C5_WriteErrorState ==
  last.op = "write" =>
    /\ last.result = "WriteError" <=> last.code = -1
    /\ last.result \in {"Ok", "WriteError"}
    /\ \E w \in 1..Len(writers) : writers[w].f = last.f /\ writers[w].live

C5_WriteError ==
  /\ []C5_WriteErrorState
  /\ [][WriteStep =>
          /\ writers' = writers
          /\ hdr_ok' = hdr_ok
          /\ log' = [log EXCEPT ![last'.f] = Append(@, "sam_write1")]]_vars
  /\ [][(last.op = "write" /\ last.result = "WriteError" /\ last'.op = "drop"
           /\ last'.f = last.f)
          => log'[last.f] = Append(log[last.f], "hts_close")]_vars

C5_Witness ==
  /\ last.op = "write"
  /\ last.code = -1
  /\ last.result = "WriteError"
  /\ Writes(log[last.f]) = MaxWrites
  /\ \E w \in 1..Len(writers) : writers[w].f = last.f /\ writers[w].live

(***************************************************************************)
(* bam::Header as a state machine: one Header, built by new or by          *)
(* from_template, grown by push_record and push_comment and read by        *)
(* to_hashmap.  ret is the value the most recent call returned.            *)
(***************************************************************************)
\* the raw text of the HeaderView handed to from_template
TemplateSources ==
  {<<>>,
   <<NL>>,
   <<"@", "S", "Q", TAB, "L", "N", ":", "1", "0", "0", NL, NL>>,
   <<"@", "H", "D", TAB, "V", "N", ":", "1", NL, "@", "S", "Q", TAB, "S", "N", ":", "1">>,
   <<"x", "@", "S", "Q", TAB, "S", "N", ":", "1">>,
   <<"@", "S", "Q", TAB, "x", "S", "N", ":", "1">>,
   <<"@", "S", "Q", TAB, "S", "N", ":", "1", "\r", "z">>,
   <<"N", "O", "T", "A", "T", "A", "G", TAB, "S", "N", ":", "1">>,
   <<"@", "S", "Q", TAB, "B", "A", "D", "T", "A", "G">>,
   <<TAB>>}

\* the texts handed to push_comment
Comments == {<<>>, <<"h", "i">>, <<"a", NL, "b">>, <<"\\xFF">>}

\* the records handed to push_record
SampleRecords ==
  {HeaderRecord_new(SQ),
   push_tag(HeaderRecord_new(HD), VN, <<"1", ".", "6">>),
   push_tag(push_tag(HeaderRecord_new(SQ), SN, <<"c", "h", "r", "1">>), LN, <<"1", "0", "0">>),
   push_tag(push_tag(HeaderRecord_new(SQ), SN, <<"A">>), SN, <<"B">>)}

HeaderNew ==
  /\ header_made = "none"
  /\ header_made' = "new"
  /\ records' = Header_new
  /\ ret' = NoRet
  /\ UNCHANGED <<wvars, rvars>>

FromTemplate ==
  /\ header_made = "none"
  /\ \E source \in TemplateSources : records' = from_template(source)
  /\ header_made' = "template"
  /\ ret' = NoRet
  /\ UNCHANGED <<wvars, rvars>>

PushRecord ==
  /\ header_made # "none"
  /\ Len(records) < MaxLines
  /\ \E rec \in SampleRecords : records' = push_record(records, rec)
  /\ ret' = NoRet
  /\ UNCHANGED <<wvars, rvars, header_made>>

PushComment ==
  /\ header_made # "none"
  /\ Len(records) < MaxLines
  /\ \E comment \in Comments : records' = push_comment(records, comment)
  /\ ret' = NoRet
  /\ UNCHANGED <<wvars, rvars, header_made>>

ToHashmap ==
  /\ header_made # "none"
  /\ ret' = [call |-> "to_hashmap", value |-> to_hashmap(records)]
  /\ UNCHANGED <<wvars, rvars, hvars>>

HeaderNext == HeaderNew \/ FromTemplate \/ PushRecord \/ PushComment \/ ToHashmap

HeaderSpec == Init /\ [][HeaderNext]_vars

(***************************************************************************)
(* bam::HeaderRecord as a state machine: one record, built by new, grown   *)
(* by push_tag, and parsed back from the header that holds it alone.       *)
(***************************************************************************)
RecTypes == {SQ, HD}
Tags == {SN, LN, <<"1", "A">>}
Values == {<<"A">>, <<"B">>, <<>>}

Rec == [rec_type |-> rec_type, tags |-> tags]

HeaderRecordNew ==
  /\ ~record_made
  /\ \E rt \in RecTypes :
       /\ rec_type' = HeaderRecord_new(rt).rec_type
       /\ tags' = HeaderRecord_new(rt).tags
  /\ record_made' = TRUE
  /\ ret' = NoRet
  /\ UNCHANGED <<wvars, hvars>>

PushTag ==
  /\ record_made
  /\ Len(tags) < MaxTags
  /\ \E tag \in Tags, value \in Values : tags' = push_tag(Rec, tag, value).tags
  /\ ret' = NoRet
  /\ UNCHANGED <<wvars, hvars, record_made, rec_type>>

\* Header::new().push_record(&record).to_hashmap()
RecordToHashmap ==
  /\ record_made
  /\ header_made' = "new"
  /\ records' = push_record(Header_new, Rec)
  /\ ret' = [call |-> "to_hashmap", value |-> to_hashmap(records')]
  /\ UNCHANGED <<wvars, rvars>>

RecordNext == HeaderRecordNew \/ PushTag \/ RecordToHashmap

RecordSpec == Init /\ [][RecordNext]_vars

(***************************************************************************)
(* Claims about Header, checked under HeaderSpec.                          *)
(***************************************************************************)
Parsed == ret.call = "to_hashmap"
Lines == non_empty(split(Header_to_bytes(records), NL))
Parts(line) == non_empty(split(line, TAB))

\* the record-type code a pushed line was pushed under: its first field
\* without the leading @
PushedCode(line) == SubSeq(split(line, TAB)[1], 2, Len(split(line, TAB)[1]))
PushedUnder(code) == SelectSeq(records, LAMBDA line : PushedCode(line) = code)
PlainText(line) == \A i \in 1..Len(line) : line[i] \in Printable \cup {TAB}

\* C6: for a Header built from Header::new() by push_record and push_comment
\* (here: of printable text), to_hashmap succeeds, its keys are exactly the
\* record-type codes pushed (CO for a comment), and each key's list holds one
\* entry per line pushed under it, in push order.
C6_RoundTrip ==
  (Parsed /\ header_made = "new" /\ \A i \in 1..Len(records) : PlainText(records[i])) =>
    /\ ret.value.ok
    /\ DOMAIN ret.value.val = {PushedCode(records[i]) : i \in 1..Len(records)}
    /\ \A code \in DOMAIN ret.value.val :
         /\ Len(ret.value.val[code]) = Len(PushedUnder(code))
         /\ \A j \in 1..Len(PushedUnder(code)) :
              /\ to_hashmap(<<PushedUnder(code)[j]>>).ok
              /\ ret.value.val[code][j] = to_hashmap(<<PushedUnder(code)[j]>>).val[code][1]

\* ^@([A-Z][A-Z]): the segment begins with @ and two uppercase letters
AnchoredRecType(seg) ==
  Len(seg) >= 3 /\ seg[1] = "@" /\ seg[2] \in Upper /\ seg[3] \in Upper

\* C7: parsing fails whenever the first segment of some non-empty line does
\* not begin with @ and two uppercase letters; when it parses, the keys are
\* the letters at positions 1-2 of the first segments.
C7_RecTypeAnchored ==
  Parsed =>
    /\ (\E i \in 1..Len(Lines) :
          Parts(Lines[i]) # <<>> /\ ~AnchoredRecType(Parts(Lines[i])[1]))
         => ~ret.value.ok
    /\ ret.value.ok =>
         DOMAIN ret.value.val = {SubSeq(Parts(Lines[i])[1], 2, 3) : i \in 1..Len(Lines)}

\* ^([A-Za-z][A-Za-z0-9]):([\x20-\x7E]+)$: the whole segment is a tag, a
\* colon and a printable value
WholeTag(seg) ==
  /\ Len(seg) >= 4
  /\ seg[1] \in Alpha
  /\ seg[2] \in Alnum
  /\ seg[3] = ":"
  /\ \A k \in 4..Len(seg) : seg[k] \in Printable

\* C8: parsing fails whenever some non-first segment of a non-empty line is
\* not in its entirety a tag, a colon and a printable value; when it parses,
\* each line's mapping holds, for every segment, the segment's first two
\* characters as tag (with the text after the colon as value, for the last
\* segment of that tag).
C8_TagAnchored ==
  Parsed =>
    /\ (\E i \in 1..Len(Lines) : \E j \in 2..Len(Parts(Lines[i])) :
          ~WholeTag(Parts(Lines[i])[j]))
         => ~ret.value.ok
    /\ ret.value.ok =>
         \A i \in 1..Len(Lines) : \A j \in 2..Len(Parts(Lines[i])) :
           LET seg == Parts(Lines[i])[j]
               field == to_hashmap(<<Lines[i]>>).val[SubSeq(Parts(Lines[i])[1], 2, 3)][1]
           IN \E n \in 1..Len(field) :
                /\ field[n][1] = SubSeq(seg, 1, 2)
                /\ (\A m \in (j + 1)..Len(Parts(Lines[i])) :
                      SubSeq(Parts(Lines[i])[m], 1, 2) # SubSeq(seg, 1, 2))
                     => field[n][2] = SubSeq(seg, 4, Len(seg))

\* the arguments of the push_record and push_comment calls made so far
Pushed == SubSeq(records, IF header_made = "template" THEN 2 ELSE 1, Len(records))
NoNewline(bytes) == \A i \in 1..Len(bytes) : bytes[i] # NL

\* C9: for a Header from new() or from_template(any source) followed by
\* pushes of newline-free arguments, to_bytes() has no leading newline, no
\* trailing newline and no empty line.
C9_NoBlankLine ==
  (header_made # "none" /\ \A i \in 1..Len(Pushed) : NoNewline(Pushed[i])) =>
    LET bytes == Header_to_bytes(records)
    IN bytes # <<>> =>
         /\ bytes[1] # NL
         /\ bytes[Len(bytes)] # NL
         /\ \A i \in 1..(Len(bytes) - 1) : ~(bytes[i] = NL /\ bytes[i + 1] = NL)

(***************************************************************************)
(* Claims about HeaderRecord, checked under RecordSpec.                    *)
(***************************************************************************)
\* a record of the header grammar: a two-letter type, tags of the shape the
\* SAM format gives them, printable non-empty values
WellFormed ==
  /\ AnchoredRecType(rec_type) /\ Len(rec_type) = 3
  /\ \A i \in 1..Len(tags) : WholeTag(tags[i][1] \o <<":">> \o tags[i][2]) /\ Len(tags[i][1]) = 2

LastPushed(tag) == tags[CHOOSE i \in 1..Len(tags) :
                          tags[i][1] = tag /\ \A j \in (i + 1)..Len(tags) : tags[j][1] # tag][2]

====
